---- MODULE Spec2Model ----
(***************************************************************************)
(* The two read endpoints of the music library service:                    *)
(*   browse_all      (src/routes/music/browse_all.rs)                      *)
(*   get_top_tracks  (src/routes/music/top_tracks/get_top_tracks.rs)       *)
(* modelled as request handlers running concurrently over one connection   *)
(* pool and two tables, music and play_log.                                *)
(***************************************************************************)
EXTENDS Integers, Sequences, FiniteSets, TLC

VARIABLES music, play_log, db_pool, active, req

vars == <<music, play_log, db_pool, active, req>>

(***************************************************************************)
(* Bounds of the model.                                                    *)
(***************************************************************************)
\* largest start_index a request carries
MaxStart == 2
\* largest page_length a request carries (the smallest is -1)
MaxLen == 2
\* largest user_times_played of a play-log row
MaxPlays == 2
\* largest number of rows of the play log
MaxRows == 3
\* connections of the pool
PoolSize == 1

Requests == {"r1", "r2"}
Users == {"u1", "u2"}
Categories == {"artists", "albums", "genres", "colors"}

\* Option<i64>: None is <<>>, Some(n) is <<n>>
None == <<>>
Some(n) == <<n>>
PageLengths == {None} \cup {Some(n) : n \in -1..MaxLen}
StartIndices == 0..MaxStart

(***************************************************************************)
(* The tables.  Text that is hashed (artist, album) is a sequence of       *)
(* UTF-8 bytes; "ab" is <<97, 98>>.                                        *)
(***************************************************************************)
Track(id, artist, title, album, genre, times_played) ==
    [music_id |-> id, artist |-> artist, title |-> title, album |-> album,
     genre |-> genre, times_played |-> times_played]

Catalog ==
    { Track("t1", <<97, 98>>, "T1", <<99>>, "rock", 1),
      Track("t2", <<97>>, "T2", <<98, 99>>, "rock", 5),
      Track("t3", <<97, 98>>, "T3", <<99>>, "jazz", 3) }

TrackIds == {"t1", "t2", "t3"}

LogRows == [user_id : Users, music_id : TrackIds, user_times_played : 0..MaxPlays]

\* one row per (user, track) pair
UniqueKeys(log) ==
    \A a, b \in log : (a.user_id = b.user_id /\ a.music_id = b.music_id) => a = b

RECURSIVE SubsetsUpTo(_, _)
SubsetsUpTo(S, n) ==
    IF n = 0 THEN {{}}
    ELSE LET smaller == SubsetsUpTo(S, n - 1)
         IN smaller \cup { s \cup {x} : s \in smaller, x \in S }

PlayLogs == { log \in SubsetsUpTo(LogRows, MaxRows) : UniqueKeys(log) }

SampleLog ==
    { [user_id |-> "u1", music_id |-> "t1", user_times_played |-> 2],
      [user_id |-> "u1", music_id |-> "t2", user_times_played |-> 1],
      [user_id |-> "u1", music_id |-> "t3", user_times_played |-> 0],
      [user_id |-> "u2", music_id |-> "t3", user_times_played |-> 2] }

(***************************************************************************)
(* Responses.                                                              *)
(***************************************************************************)
TextResponse(status, msg) ==
    [status |-> status, content_type |-> "none", body |-> msg, json |-> <<>>]

JsonResponse(list) ==
    [status |-> 200, content_type |-> "application/json", body |-> "", json |-> list]

NoResponse == [status |-> 0, content_type |-> "none", body |-> "", json |-> <<>>]

\* a get() failure reported with the query failure's message
PoolErrResponseAsDatabase == TextResponse(500, "Database error")

\* db_pool.get() failed
PoolErrResponse == TextResponse(500, "Failed to get DB from pool")

(***************************************************************************)
(* browse_all: the match on the category and the distinct query.           *)
(***************************************************************************)
\* the column a category selects, "invalid" for the wildcard arm
BrowseColumn(category) ==
    CASE category = "artists" -> "artist"
      [] category = "albums" -> "album"
      [] category = "genres" -> "genre"
      [] OTHER -> "invalid"

\* music.select(column).distinct()
Distinct(table, column) ==
    CASE column = "artist" -> { m.artist : m \in table }
      [] column = "album" -> { m.album : m \in table }
      [] column = "genre" -> { m.genre : m \in table }

\* the sequences enumerating a finite set once each (a query result in any order)
Enumerations(S) ==
    { s \in [1..Cardinality(S) -> S] :
        \A i, j \in 1..Cardinality(S) : i # j => s[i] # s[j] }

\* the match on the loaded result: result is [ok, items]
BrowseMatch(result, serOk) ==
    IF ~result.ok
    THEN [response |-> TextResponse(500, "Database error"), ser |-> "none"]
    ELSE IF serOk
         THEN [response |-> JsonResponse(result.items), ser |-> "ok"]
         ELSE [response |-> TextResponse(500, "Failed to serialize response"),
               ser |-> "err"]

InvalidCategoryResponse ==
    TextResponse(400, "Invalid category. Use 'artists', 'albums', or 'genres'.")

(***************************************************************************)
(* get_top_tracks: the query.                                              *)
(***************************************************************************)
\* the filter with ge(0) for ge(1)
FilteredFromZero(log, user_id) ==
    { l \in log : l.user_id = user_id /\ l.user_times_played >= 0 }

\* .filter(user_id.eq(..)).filter(user_times_played.ge(1))
Filtered(log, user_id) ==
    { l \in log : l.user_id = user_id /\ l.user_times_played >= 1 }

\* .inner_join(music::table)
Joined(log, table) ==
    { [row |-> p[1], entry |-> p[2]] :
        p \in { q \in log \X table : q[1].music_id = q[2].music_id } }

\* the order with asc() for desc()
OrderByAsc(s) ==
    \A i, j \in 1..Len(s) :
        i < j => s[i].row.user_times_played <= s[j].row.user_times_played

\* .order(user_times_played.desc()): rows of equal count come in any order
OrderBy(s) ==
    \A i, j \in 1..Len(s) :
        i < j => s[i].row.user_times_played >= s[j].row.user_times_played

Ordered(S) == { s \in Enumerations(S) : OrderBy(s) }

\* .select(music::all_columns)
Select(s) == [i \in 1..Len(s) |-> s[i].entry]

\* .offset(n)
Offset(s, n) == IF n >= Len(s) THEN <<>> ELSE SubSeq(s, n + 1, Len(s))

\* .limit(n)
Limit(s, n) == IF n >= Len(s) THEN s ELSE SubSeq(s, 1, n)

\* the limit applied for every Some(length) with length >= 0
PageLimitFromZero(s, page_length) ==
    IF page_length # None /\ page_length[1] >= 0
    THEN Limit(s, page_length[1])
    ELSE s

\* the limit is applied only for Some(length) with length > 0
PageLimit(s, page_length) ==
    IF page_length # None /\ page_length[1] > 0
    THEN Limit(s, page_length[1])
    ELSE s

\* the rows the boxed query loads, given the order the database produced
TopTracksQuery(ordered, start_index, page_length) ==
    PageLimit(Offset(Select(ordered), start_index), page_length)

(***************************************************************************)
(* get_top_tracks: the image identifier.  The hasher is fed the bytes of   *)
(* artist, a 0xff terminator, the bytes of album and a 0xff terminator     *)
(* (Hash for str); finish() is a function of that byte stream alone, the   *)
(* hasher being keyed with constants.  The 64-bit result is kept as four   *)
(* 16-bit words, most significant first; the mixing below stands for the   *)
(* SipHash rounds.                                                         *)
(***************************************************************************)
\* str::hash(&mut hasher): the bytes, then 0xff
HashStr(stream, str) == stream \o str \o <<255>>

RECURSIVE Mix(_, _)
Mix(h, stream) ==
    IF stream = <<>> THEN h
    ELSE LET b == Head(stream)
             a == (h[1] * 33 + b) % 65536
             c == (h[2] * 31 + a + 7) % 65536
             d == (h[3] * 17 + c + b) % 65536
             e == (h[4] * 5 + d + 1) % 65536
         IN Mix(<<a, c, d, e>>, Tail(stream))

\* hasher.finish()
Finish(stream) == Mix(<<29556, 25701, 27769, 31090>>, stream)

HexDigit == <<"0", "1", "2", "3", "4", "5", "6", "7",
              "8", "9", "a", "b", "c", "d", "e", "f">>

\* four lower-case hex digits of a 16-bit word
Hex4(w) ==
    HexDigit[(w \div 4096) + 1] \o HexDigit[((w \div 256) % 16) + 1]
        \o HexDigit[((w \div 16) % 16) + 1] \o HexDigit[(w % 16) + 1]

\* Uuid::from_u64_pair(high, low).to_string(): 8-4-4-4-12 hex digits
UuidToString(high, low) ==
    Hex4(high[1]) \o Hex4(high[2]) \o "-" \o Hex4(high[3]) \o "-" \o Hex4(high[4])
        \o "-" \o Hex4(low[1]) \o "-" \o Hex4(low[2]) \o Hex4(low[3]) \o Hex4(low[4])

\* the hasher fed a field of the track as well
HashedFieldsWithPlays(entry) ==
    HashStr(HashStr(<<>>, entry.artist), entry.album) \o <<entry.times_played>>

\* the stream the closure feeds the hasher for one entry
HashedFields(entry) == HashStr(HashStr(<<>>, entry.artist), entry.album)

\* the image_url of an entry
ImageUrl(entry) ==
    LET hash == Finish(HashedFields(entry))
    IN UuidToString(hash, hash)

\* the MusicResponse built from one entry
MusicResponse(entry) ==
    [id |-> entry.music_id, artist |-> entry.artist, title |-> entry.title,
     album |-> entry.album, genre |-> entry.genre,
     times_played |-> entry.times_played, image_url |-> ImageUrl(entry)]

\* the collected list in reverse
ResponsesReversed(music_entries) ==
    [i \in 1..Len(music_entries) |->
        MusicResponse(music_entries[Len(music_entries) + 1 - i])]

\* music_entries.into_iter().map(..).collect()
Responses(music_entries) ==
    [i \in 1..Len(music_entries) |-> MusicResponse(music_entries[i])]

\* the match without the is_empty() return
TopTracksMatchNoEmptyCheck(result, serOk) ==
    IF ~result.ok
    THEN [response |-> TextResponse(500, "Database error"), ser |-> "none"]
    ELSE IF serOk
         THEN [response |-> JsonResponse(Responses(result.music_entries)), ser |-> "ok"]
         ELSE [response |-> TextResponse(500, "Failed to serialize response"),
               ser |-> "err"]

\* the match with a failed load taken for an empty one
TopTracksMatchErrAsEmpty(result, serOk) ==
    IF ~result.ok \/ result.music_entries = <<>>
    THEN [response |-> TextResponse(404, "No top tracks found"), ser |-> "none"]
    ELSE IF serOk
         THEN [response |-> JsonResponse(Responses(result.music_entries)), ser |-> "ok"]
         ELSE [response |-> TextResponse(500, "Failed to serialize response"),
               ser |-> "err"]

\* the match on the loaded result: result is [ok, music_entries]
TopTracksMatch(result, serOk) ==
    IF ~result.ok
    THEN [response |-> TextResponse(500, "Database error"), ser |-> "none"]
    ELSE IF result.music_entries = <<>>
         THEN [response |-> TextResponse(404, "No top tracks found"), ser |-> "none"]
         ELSE IF serOk
              THEN [response |-> JsonResponse(Responses(result.music_entries)),
                    ser |-> "ok"]
              ELSE [response |-> TextResponse(500, "Failed to serialize response"),
                    ser |-> "err"]

(***************************************************************************)
(* The state: the two tables, the idle connections of the pool, and the    *)
(* requests.  A request records, beside its parameters and its position,   *)
(* whether it holds a connection (db_conn), how often it called            *)
(* db_pool.get() and load(), how each call and the serialization ended,    *)
(* the rows in the order the database produced them (ordered), the loaded  *)
(* rows (music_entries) and its response.                                  *)
(***************************************************************************)
Idle ==
    [pc |-> "idle", kind |-> "none", category |-> "", user_id |-> "",
     start_index |-> 0, page_length |-> None, db_conn |-> FALSE,
     gets |-> 0, loads |-> 0, get |-> "none", load |-> "none", ser |-> "none",
     ordered |-> <<>>, music_entries |-> <<>>, response |-> NoResponse]

\* one request over the catalog and any play log
Init ==
    /\ music = Catalog
    /\ play_log \in PlayLogs
    /\ db_pool = PoolSize
    /\ active = {"r1"}
    /\ req = [r \in Requests |-> Idle]

\* concurrent requests over one catalog and play log
InitPool ==
    /\ music = Catalog
    /\ play_log = SampleLog
    /\ db_pool = PoolSize
    /\ active = Requests
    /\ req = [r \in Requests |-> Idle]

\* a connection that is never given back
ReleaseLeak(pool, held) == pool

\* the PooledConnection goes back to the pool when db_conn leaves scope
Release(pool, held) == IF held THEN pool + 1 ELSE pool

\* the router hands GET /music/browse/{category} to browse_all
BrowseRequest(r) ==
    /\ req[r].pc = "idle"
    /\ \E category \in Categories :
         req' = [req EXCEPT ![r] = [@ EXCEPT !.pc = "get", !.kind = "browse_all",
                                              !.category = category]]
    /\ UNCHANGED <<music, play_log, db_pool, active>>

\* the router hands GET /music/top-tracks to get_top_tracks
TopTracksRequest(r) ==
    /\ req[r].pc = "idle"
    /\ \E user_id \in Users, start_index \in StartIndices, page_length \in PageLengths :
         req' = [req EXCEPT ![r] = [@ EXCEPT !.pc = "get", !.kind = "get_top_tracks",
                                              !.user_id = user_id,
                                              !.start_index = start_index,
                                              !.page_length = page_length]]
    /\ UNCHANGED <<music, play_log, db_pool, active>>

\* app_state.db_pool.get() returns a connection
PoolGetOk(r) ==
    /\ req[r].pc = "get"
    /\ db_pool > 0
    /\ db_pool' = db_pool - 1
    /\ req' = [req EXCEPT ![r] = [@ EXCEPT !.pc = "load", !.db_conn = TRUE,
                                            !.gets = @ + 1, !.get = "ok"]]
    /\ UNCHANGED <<music, play_log, active>>

\* app_state.db_pool.get() fails (no connection in time): the handler returns
PoolGetErr(r) ==
    /\ req[r].pc = "get"
    /\ db_pool' = Release(db_pool, req[r].db_conn)
    /\ req' = [req EXCEPT ![r] = [@ EXCEPT !.pc = "done", !.db_conn = FALSE,
                                            !.gets = @ + 1, !.get = "err",
                                            !.response = PoolErrResponse]]
    /\ UNCHANGED <<music, play_log, active>>

\* browse_all, wildcard arm of the match: the handler returns
BrowseInvalid(r) ==
    /\ req[r].pc = "load"
    /\ req[r].kind = "browse_all"
    /\ BrowseColumn(req[r].category) = "invalid"
    /\ db_pool' = Release(db_pool, req[r].db_conn)
    /\ req' = [req EXCEPT ![r] = [@ EXCEPT !.pc = "done", !.db_conn = FALSE,
                                            !.response = InvalidCategoryResponse]]
    /\ UNCHANGED <<music, play_log, active>>

\* browse_all, the three query arms, the match on the result and the return
BrowseLoad(r) ==
    /\ req[r].pc = "load"
    /\ req[r].kind = "browse_all"
    /\ BrowseColumn(req[r].category) # "invalid"
    /\ \E ok \in BOOLEAN, serOk \in BOOLEAN,
          items \in Enumerations(Distinct(music, BrowseColumn(req[r].category))) :
         LET out == BrowseMatch([ok |-> ok, items |-> items], serOk)
         IN req' = [req EXCEPT ![r] = [@ EXCEPT !.pc = "done", !.db_conn = FALSE,
                                                 !.loads = @ + 1,
                                                 !.load = IF ok THEN "ok" ELSE "err",
                                                 !.ser = out.ser,
                                                 !.response = out.response]]
    /\ db_pool' = Release(db_pool, req[r].db_conn)
    /\ UNCHANGED <<music, play_log, active>>

\* get_top_tracks: query.load() succeeds, the match on the result and the return
TopTracksLoadOk(r) ==
    /\ req[r].pc = "load"
    /\ req[r].kind = "get_top_tracks"
    /\ \E serOk \in BOOLEAN,
          ordered \in Ordered(Joined(Filtered(play_log, req[r].user_id), music)) :
         LET music_entries ==
                 TopTracksQuery(ordered, req[r].start_index, req[r].page_length)
             out == TopTracksMatch([ok |-> TRUE, music_entries |-> music_entries], serOk)
         IN req' = [req EXCEPT ![r] = [@ EXCEPT !.pc = "done", !.db_conn = FALSE,
                                                 !.loads = @ + 1, !.load = "ok",
                                                 !.ordered = ordered,
                                                 !.music_entries = music_entries,
                                                 !.ser = out.ser,
                                                 !.response = out.response]]
    /\ db_pool' = Release(db_pool, req[r].db_conn)
    /\ UNCHANGED <<music, play_log, active>>

\* get_top_tracks: query.load() fails, the match on the result and the return
TopTracksLoadErr(r) ==
    /\ req[r].pc = "load"
    /\ req[r].kind = "get_top_tracks"
    /\ \E serOk \in BOOLEAN :
         LET out == TopTracksMatch([ok |-> FALSE, music_entries |-> <<>>], serOk)
         IN req' = [req EXCEPT ![r] = [@ EXCEPT !.pc = "done", !.db_conn = FALSE,
                                                 !.loads = @ + 1, !.load = "err",
                                                 !.ser = out.ser,
                                                 !.response = out.response]]
    /\ db_pool' = Release(db_pool, req[r].db_conn)
    /\ UNCHANGED <<music, play_log, active>>

Next ==
    \/ \E r \in active : BrowseRequest(r)
    \/ \E r \in active : TopTracksRequest(r)
    \/ \E r \in active : PoolGetOk(r)
    \/ \E r \in active : PoolGetErr(r)
    \/ \E r \in active : BrowseInvalid(r)
    \/ \E r \in active : BrowseLoad(r)
    \/ \E r \in active : TopTracksLoadOk(r)
    \/ \E r \in active : TopTracksLoadErr(r)

Spec == Init /\ [][Next]_vars

SpecPool == InitPool /\ [][Next]_vars

(***************************************************************************)
(* Vocabulary of the properties.                                           *)
(***************************************************************************)
Done(r) == r \in active /\ req[r].pc = "done"

TopDone(r) == Done(r) /\ req[r].kind = "get_top_tracks"

BrowseDone(r) == Done(r) /\ req[r].kind = "browse_all"

Top200(r) == TopDone(r) /\ req[r].response.status = 200

ValidCategories == {"artists", "albums", "genres"}

\* the play-log rows of a user that count as plays
Qualifying(user_id) ==
    { l \in play_log : l.user_id = user_id /\ l.user_times_played >= 1 }

\* the play count the play log holds for a user and a track, -1 without a row
UserPlays(user_id, music_id) ==
    LET rows == { l \in play_log : l.user_id = user_id /\ l.music_id = music_id }
    IN IF rows = {} THEN -1 ELSE (CHOOSE l \in rows : TRUE).user_times_played

\* the number of rows the request is to return, out of n rows in order
PageSize(q, n) ==
    LET remaining == IF q.start_index >= n THEN 0 ELSE n - q.start_index
    IN IF q.page_length = None THEN remaining
       ELSE IF q.page_length[1] <= 0 THEN remaining
       ELSE IF q.page_length[1] < remaining THEN q.page_length[1] ELSE remaining

\* what happened to a concluded request, in the terms of the error taxonomy
ErrorCategory(q) ==
    CASE q.get = "err" -> "ResourceUnavailable"
      [] q.load = "err" -> "StorageError"
      [] q.ser = "err" -> "SerializationError"
      [] q.kind = "browse_all" /\ q.get = "ok" /\ q.category \notin ValidCategories
           -> "InvalidInput"
      [] q.kind = "get_top_tracks" /\ q.load = "ok" /\ q.music_entries = <<>>
           -> "NotFound"
      [] OTHER -> "none"

(***************************************************************************)
(* C1                                                                      *)
(***************************************************************************)
\* C1: a browse request whose category is none of the three literals always
\* ends with status 400 "Invalid category", and it has made no storage
\* access before that: neither a db_pool.get() nor a load().
C1_InvalidCategoryBeforeStorage ==
    \A r \in active :
        (BrowseDone(r) /\ req[r].category \notin ValidCategories)
            => /\ req[r].response = InvalidCategoryResponse
               /\ req[r].gets = 0
               /\ req[r].loads = 0

(***************************************************************************)
(* C2                                                                      *)
(***************************************************************************)
\* C2 as stated: the items of a 200 response of get_top_tracks are
\* non-increasing in the times_played field they carry.
C2_SortedByTimesPlayedField ==
    \A r \in active :
        Top200(r) =>
            \A i, j \in 1..Len(req[r].response.json) :
                i < j => req[r].response.json[i].times_played
                             >= req[r].response.json[j].times_played

\* C2 as amended: the items of a 200 response of get_top_tracks are
\* non-increasing in the play count the play log holds for the requesting
\* user and the item's track.
C2_SortedByUserTimesPlayed ==
    \A r \in active :
        Top200(r) =>
            \A i, j \in 1..Len(req[r].response.json) :
                i < j => UserPlays(req[r].user_id, req[r].response.json[i].id)
                             >= UserPlays(req[r].user_id, req[r].response.json[j].id)

\* a 200 response of two or more items whose user play counts differ and
\* whose times_played fields run the other way
C2_Witness ==
    \E r \in active :
        /\ Top200(r)
        /\ Len(req[r].response.json) >= 2
        /\ UserPlays(req[r].user_id, req[r].response.json[1].id)
               > UserPlays(req[r].user_id, req[r].response.json[2].id)
        /\ req[r].response.json[1].times_played < req[r].response.json[2].times_played

(***************************************************************************)
(* C3                                                                      *)
(***************************************************************************)
\* C3: every item of a 200 response of get_top_tracks is the track of a
\* play-log row of the requesting user whose user_times_played is at least 1.
C3_ItemsArePlayedByUser ==
    \A r \in active :
        Top200(r) =>
            \A i \in 1..Len(req[r].response.json) :
                \E l \in play_log :
                    /\ l.user_id = req[r].user_id
                    /\ l.music_id = req[r].response.json[i].id
                    /\ l.user_times_played >= 1

\* a 200 response for a user who has a row of count 0, while another user
\* has played a track the user has no row for
C3_Witness ==
    \E r \in active :
        /\ Top200(r)
        /\ \E l \in play_log : l.user_id = req[r].user_id /\ l.user_times_played = 0
        /\ \E l \in play_log :
              /\ l.user_id # req[r].user_id
              /\ l.user_times_played >= 1
              /\ UserPlays(req[r].user_id, l.music_id) = -1

(***************************************************************************)
(* C4                                                                      *)
(***************************************************************************)
\* C4: a load that succeeds returns the qualifying rows from position
\* start_index on: all of them when page_length is absent, 0 or negative,
\* the first min(page_length, remaining) of them when it is positive; a 200
\* response carries exactly those rows.
C4_OffsetAlwaysLimitWhenPositive ==
    \A r \in active :
        (TopDone(r) /\ req[r].load = "ok") =>
            LET q == req[r]
                n == PageSize(q, Len(q.ordered))
            IN /\ { q.ordered[k].row : k \in 1..Len(q.ordered) } = Qualifying(q.user_id)
               /\ Len(q.ordered) = Cardinality(Qualifying(q.user_id))
               /\ Len(q.music_entries) = n
               /\ \A i \in 1..n : q.music_entries[i] = q.ordered[q.start_index + i].entry
               /\ q.response.status = 200 =>
                      /\ Len(q.response.json) = n
                      /\ \A i \in 1..n :
                            q.response.json[i].id
                                = q.ordered[q.start_index + i].entry.music_id

\* a 200 response to a request with start_index 1 and page_length 0 that
\* carries the two rows left of three
C4_Witness ==
    \E r \in active :
        /\ Top200(r)
        /\ req[r].start_index = 1
        /\ req[r].page_length = Some(0)
        /\ Len(req[r].ordered) = 3
        /\ Len(req[r].response.json) = 2

(***************************************************************************)
(* C5                                                                      *)
(***************************************************************************)
\* C5: when the query of get_top_tracks succeeds with no rows (no qualifying
\* play, or start_index at or beyond their number) the response is 404, and
\* a 200 response of get_top_tracks never carries an empty list.
C5_EmptyIsNotFound ==
    \A r \in active :
        TopDone(r) =>
            /\ (req[r].load = "ok" /\ req[r].music_entries = <<>>)
                   => req[r].response.status = 404
            /\ (req[r].load = "ok"
                   /\ req[r].start_index >= Cardinality(Qualifying(req[r].user_id)))
                   => req[r].response.status = 404
            /\ req[r].response.status = 200 => req[r].response.json # <<>>

\* a 404 for a user with qualifying plays, start_index being beyond them
C5_Witness ==
    \E r \in active :
        /\ TopDone(r)
        /\ req[r].load = "ok"
        /\ Qualifying(req[r].user_id) # {}
        /\ req[r].start_index >= Cardinality(Qualifying(req[r].user_id))
        /\ req[r].response.status = 404

(***************************************************************************)
(* C6                                                                      *)
(***************************************************************************)
\* the status the interface documents for each error category
StatusOf(category) ==
    CASE category = "InvalidInput" -> 400
      [] category = "NotFound" -> 404
      [] OTHER -> 500

\* C6 as stated: two concluded requests that ended in different error
\* categories never carry the same status code.
C6_DistinctStatusPerCategory ==
    \A r1, r2 \in active :
        (/\ Done(r1) /\ Done(r2)
         /\ ErrorCategory(req[r1]) # "none" /\ ErrorCategory(req[r2]) # "none"
         /\ ErrorCategory(req[r1]) # ErrorCategory(req[r2]))
            => req[r1].response.status # req[r2].response.status

\* C6 as amended: InvalidInput gives 400, NotFound gives 404, and
\* ResourceUnavailable, StorageError and SerializationError all give 500;
\* two concluded requests that ended in different error categories never
\* carry the same pair of status code and message.
C6_DistinctStatusAndMessage ==
    /\ \A r \in active :
          (Done(r) /\ ErrorCategory(req[r]) # "none")
              => req[r].response.status = StatusOf(ErrorCategory(req[r]))
    /\ \A r1, r2 \in active :
          (/\ Done(r1) /\ Done(r2)
           /\ ErrorCategory(req[r1]) # "none" /\ ErrorCategory(req[r2]) # "none"
           /\ ErrorCategory(req[r1]) # ErrorCategory(req[r2]))
              => <<req[r1].response.status, req[r1].response.body>>
                     # <<req[r2].response.status, req[r2].response.body>>

\* one request ended in a failed get(), another in a failed load()
C6_Witness ==
    \E r1, r2 \in active :
        /\ Done(r1) /\ Done(r2)
        /\ ErrorCategory(req[r1]) = "ResourceUnavailable"
        /\ ErrorCategory(req[r2]) = "StorageError"
        /\ req[r1].response.status = req[r2].response.status

(***************************************************************************)
(* C7                                                                      *)
(***************************************************************************)
\* C7: any two items of 200 responses of get_top_tracks, of one request or
\* of two, that agree on artist and album carry the same image_url.
C7_ImageUrlOfArtistAlbum ==
    \A r1, r2 \in active :
        (Top200(r1) /\ Top200(r2)) =>
            \A i \in 1..Len(req[r1].response.json), j \in 1..Len(req[r2].response.json) :
                LET a == req[r1].response.json[i]
                    b == req[r2].response.json[j]
                IN (a.artist = b.artist /\ a.album = b.album) => a.image_url = b.image_url

\* two requests of different users answered with items of different tracks,
\* titles, genres and play counts but one artist and album, and a third item
\* of another artist and album with another image_url
C7_Witness ==
    \E r1, r2 \in active :
        /\ Top200(r1) /\ Top200(r2)
        /\ req[r1].user_id # req[r2].user_id
        /\ \E i \in 1..Len(req[r1].response.json), j \in 1..Len(req[r2].response.json) :
              LET a == req[r1].response.json[i]
                  b == req[r2].response.json[j]
              IN /\ a.id # b.id /\ a.title # b.title /\ a.genre # b.genre
                 /\ a.times_played # b.times_played
                 /\ a.artist = b.artist /\ a.album = b.album
        /\ \E i, k \in 1..Len(req[r1].response.json) :
              /\ req[r1].response.json[i].artist # req[r1].response.json[k].artist
              /\ req[r1].response.json[i].image_url # req[r1].response.json[k].image_url

(***************************************************************************)
(* C8                                                                      *)
(***************************************************************************)
Holders == { r \in active : req[r].db_conn }

\* C8: a request holds a connection only between its one db_pool.get() and
\* its return, a concluded request holds none, the idle and the held
\* connections always add up to the pool, and once every request has
\* concluded the pool holds all its connections.
C8_NoConnectionLeak ==
    /\ db_pool >= 0
    /\ db_pool + Cardinality(Holders) = PoolSize
    /\ \A r \in active :
          /\ req[r].gets <= 1
          /\ req[r].db_conn => (req[r].pc = "load" /\ req[r].get = "ok")
          /\ req[r].pc = "load" => req[r].db_conn
          /\ req[r].pc = "done" => ~req[r].db_conn
    /\ (\A r \in active : req[r].pc = "done") => db_pool = PoolSize

\* every request has concluded, each after holding a connection: one with
\* 200, one with another status
C8_Witness ==
    /\ \A r \in active : req[r].pc = "done" /\ req[r].get = "ok"
    /\ \E r1, r2 \in active :
          req[r1].response.status = 200 /\ req[r2].response.status # 200
    /\ db_pool = PoolSize

(***************************************************************************)
(* C9                                                                      *)
(***************************************************************************)
\* C9: item i of a 200 response of get_top_tracks is built from row i of the
\* loaded rows, which are rows of the requesting user in the database's
\* order, non-increasing in user_times_played; no row is dropped, repeated
\* or moved.
C9_ItemsFollowQueryOrder ==
    \A r \in active :
        Top200(r) =>
            LET q == req[r]
                items == q.response.json
            IN /\ Len(items) = Len(q.music_entries)
               /\ \A i \in 1..Len(items) :
                     /\ items[i].id = q.music_entries[i].music_id
                     /\ items[i].artist = q.music_entries[i].artist
                     /\ items[i].title = q.music_entries[i].title
                     /\ items[i].album = q.music_entries[i].album
                     /\ items[i].genre = q.music_entries[i].genre
                     /\ items[i].times_played = q.music_entries[i].times_played
                     /\ q.ordered[q.start_index + i].entry.music_id = items[i].id
                     /\ q.ordered[q.start_index + i].row.user_id = q.user_id
               /\ \A i, j \in 1..Len(items) :
                     i < j => q.ordered[q.start_index + i].row.user_times_played
                                  >= q.ordered[q.start_index + j].row.user_times_played

\* a 200 response of three items, the first played more often than the second
C9_Witness ==
    \E r \in active :
        /\ Top200(r)
        /\ Len(req[r].response.json) = 3
        /\ req[r].ordered[1].row.user_times_played
               > req[r].ordered[2].row.user_times_played

(***************************************************************************)
(* C10                                                                     *)
(***************************************************************************)
\* C10: get_top_tracks calls get() and load() at most once each and answers
\* with the first failure in the order get(), load(), empty result,
\* serialization: a failed get() gives 500 and no load(); else a failed
\* load() gives 500 with another message; else an empty result gives 404
\* and no serialization; else a failed serialization gives 500 with a third
\* message; 200 is given only when all four steps succeeded.
C10_FailureOrder ==
    \A r \in active :
        TopDone(r) =>
            LET q == req[r]
            IN /\ q.gets = 1 /\ q.loads <= 1
               /\ q.get = "err" =>
                     /\ q.response = TextResponse(500, "Failed to get DB from pool")
                     /\ q.loads = 0 /\ q.load = "none" /\ q.ser = "none"
               /\ (q.get = "ok" /\ q.load = "err") =>
                     /\ q.response = TextResponse(500, "Database error")
                     /\ q.ser = "none"
               /\ (q.get = "ok" /\ q.load = "ok" /\ q.music_entries = <<>>) =>
                     /\ q.response.status = 404
                     /\ q.ser = "none"
               /\ (q.get = "ok" /\ q.load = "ok" /\ q.music_entries # <<>>) =>
                     /\ q.ser # "none"
                     /\ q.ser = "err" =>
                           q.response = TextResponse(500, "Failed to serialize response")
                     /\ q.ser = "ok" => q.response.status = 200
               /\ q.response.status = 200 =>
                     /\ q.get = "ok" /\ q.loads = 1 /\ q.load = "ok"
                     /\ q.music_entries # <<>> /\ q.ser = "ok"

\* a request whose get() and load() succeeded with rows and whose
\* serialization failed
C10_Witness ==
    \E r \in active :
        /\ TopDone(r)
        /\ req[r].get = "ok" /\ req[r].load = "ok"
        /\ req[r].music_entries # <<>>
        /\ req[r].ser = "err"
        /\ req[r].response.status = 500

====
